---- MODULE Spec2Model ----
(***************************************************************************)
(* Release-train progression engine (useReleaseTrains), stop roster editor *)
(* (useAllReleases) and the storage they share, for one release train.     *)
(*                                                                         *)
(* Storage is the `stops` and `notes` tables.  Every session holds its own *)
(* cached copy of the train's stop list (the `stops` React state of        *)
(* useReleaseTrains), filled by fetchReleaseTrains and patched by          *)
(* updateStopStatus.  An operation reads the cache as it is when the call  *)
(* starts; calls of one session do not overlap.  A storage call can fail;  *)
(* the number of failures and of direct status edits in one behaviour is   *)
(* bounded by MaxIrregular.                                                *)
(*                                                                         *)
(* Spec        one session driving the engine                              *)
(* SpecNotes   the same session also writing notes                         *)
(* SpecRoster  the admin editing the roster, the session fetching/starting *)
(* SpecShared  the session driving the engine while the admin adds stops   *)
(* SpecEdit    the session editing the status of one stop any number of    *)
(*             times                                                       *)
(* SpecCaps    sessions of every role calling the writing operations       *)
(* SpecDelete  the session writing notes while the admin deletes stops     *)
(* SpecDash    the Dashboard classifying the releases of two tracks        *)
(* SpecVersions  the Dashboard comparing the versions of two releases      *)
(* SpecTwo     two editing sessions starting and advancing the same train  *)
(* SpecRecover one session starting and advancing, with the edit that      *)
(*             restarts the next stop after an interrupted advance         *)
(* SpecRecoverEdit  the same with Start allowed on any not_started stop    *)
(* SpecUI      the administrator using the buttons the page offers         *)
(* SpecLinear  one session that only starts and advances                   *)
(* SpecRace    two sessions whose advanceToNextStop calls overlap, write   *)
(*             by write                                                    *)
(* SpecCreated a train from either creation path, driven and edited        *)
(* SpecTokens  qr-login validate requests for one login token, step by     *)
(*             step                                                        *)
(***************************************************************************)
EXTENDS Integers, Sequences, FiniteSets, TLC

\* ---- bounds -------------------------------------------------------------
MaxStops == 3      \* stops a train is created with (0..MaxStops)
MaxTime  == 2      \* the clock runs over 1..MaxTime
MaxNotes == 1      \* notes ever inserted
MaxAdd   == 1      \* stops ever added by the roster editor
MaxDelete == 2     \* stops one roster save deletes
MaxTrains == 2     \* rows of release_trains
MaxLen == 2        \* length of the generated version strings
MaxReleases == 3   \* releases the Dashboard renders
MaxIrregular == 1  \* direct status edits (updateStopStatus from the UI) plus failed storage calls

\* ---- values -------------------------------------------------------------
NULL == 0                      \* SQL NULL of a nullable timestamp column
\* the Dashboard has not rendered
NotShown == [rendered |-> FALSE, currentActive |-> <<>>,
             recentlyCompleted |-> <<>>, archived |-> <<>>]
NoUser == "nobody"             \* SQL NULL of updated_by
Sessions == {"u1", "u2", "u3"}
\* the role each session's principal holds (user_roles, resolved by useAuth)
role == [s \in Sessions |-> IF s = "u1" THEN "dev" ELSE IF s = "u2" THEN "admin" ELSE "none"]
Statuses == {"not_started", "in_progress", "done", "blocked"}
StopIds == 1..(MaxStops + MaxAdd)

E_PERM    == "No permission to edit"
E_NOSTOPS == "No stops found"
E_STARTED == "Train already started"
E_ADMIN   == "Only admins can modify stops"
E_ADMIN_DELETE == "Only admins can delete stops"
E_STORAGE == "storage error"
E_RLS     == "new row violates row-level security policy"
OK        == "ok"

\* no advanceToNextStop call of the session is under way
NoCall == [stage |-> "idle", cur |-> 0, nxt |-> 0]
\* no row in login_tokens
NoToken == [present |-> FALSE, expires_at |-> 0, used_at |-> NULL]
\* the validate requests in one behaviour
Requests == {"r1", "r2"}
NotAsked == [stage |-> "idle", response |-> "none"]

VARIABLES
  dbStops,    \* table stops of the train: stop id -> row
  dbNotes,    \* table notes: set of rows
  dbTrains,   \* table release_trains: number of rows
  stops,      \* per session: cached stop list of the train (useState stops[trainId])
  now,        \* the clock read by new Date()
  outcome,    \* the last completed engine call: operation, caller, result, stop advanced from
  irregular,  \* number of direct status edits and failed storage calls so far
  issued,     \* number of stop ids storage has handed out (gen_random_uuid)
  releases,   \* Dashboard: the release list of useAllReleases it renders
  shown,      \* Dashboard: the three lists its useMemo computed from releases
  inflight,   \* per session: the advanceToNextStop call whose writes are under way
  loginToken, \* table login_tokens: the row of one token
  validate    \* per request: position and response of a qr-login validate request

vars == <<dbStops, dbNotes, dbTrains, stops, now, outcome, irregular, issued, releases, shown,
          inflight, loginToken, validate>>

\* ---- capabilities (useAuth) ---------------------------------------------
canEdit(s) == role[s] \in {"admin", "dev", "qa", "product_manager"}
isAdmin(s) == role[s] = "admin"

\* ---- rows ---------------------------------------------------------------
NewStop(id, num, status, started) ==
  [id |-> id, number |-> num, status |-> status, started_at |-> started,
   completed_at |-> NULL, updated_by |-> NoUser]

Rows(db) == {db[i] : i \in DOMAIN db}

\* .order('number'): every arrangement of the rows with non-decreasing number
\* (rows with equal number come back in an order the database chooses)
RECURSIVE OrderByNumber(_)
OrderByNumber(rows) ==
  IF rows = {} THEN {<<>>}
  ELSE UNION {{<<r>> \o sq : sq \in OrderByNumber(rows \ {r})} :
                r \in {x \in rows : \A y \in rows : x.number <= y.number}}

\* mutant: a blocked stop counts as the current stop too
IsInProgressOrBlocked(r) == r.status \in {"in_progress", "blocked"}
IsInProgress(r) == r.status = "in_progress"
IsNumberOne(r) == r.number = 1

\* trainStops.findIndex(s => s.status === 'in_progress'): the first position
\* holding an in_progress stop, 0 if none
FirstInProgress(sq) ==
  IF \E i \in 1..Len(sq) : IsInProgress(sq[i])
  THEN CHOOSE i \in 1..Len(sq) :
         IsInProgress(sq[i]) /\ \A j \in 1..(i - 1) : ~IsInProgress(sq[j])
  ELSE 0

\* trainStops.find(s => s.number === 1): the first position holding a stop
\* numbered 1, 0 if none
FirstNumberOne(sq) ==
  IF \E i \in 1..Len(sq) : IsNumberOne(sq[i])
  THEN CHOOSE i \in 1..Len(sq) :
         IsNumberOne(sq[i]) /\ \A j \in 1..(i - 1) : ~IsNumberOne(sq[j])
  ELSE 0

\* mutant: done does not stamp completed_at
StatusUpdateNoCompleted(row, status, uid, t) ==
  [row EXCEPT !.status = status,
              !.updated_by = uid,
              !.started_at = IF status = "in_progress" THEN t ELSE @,
              !.completed_at = IF status = "in_progress" THEN NULL ELSE @]

\* mutant: in_progress does not clear completed_at
StatusUpdateKeepCompleted(row, status, uid, t) ==
  [row EXCEPT !.status = status,
              !.updated_by = uid,
              !.started_at = IF status = "in_progress" THEN t ELSE @,
              !.completed_at = IF status = "done" THEN t ELSE @]

\* ---- updateStopStatus: the row written ----------------------------------
\* updates = {status, updated_by}; in_progress stamps started_at and clears
\* completed_at, done stamps completed_at
StatusUpdate(row, status, uid, t) ==
  [row EXCEPT !.status = status,
              !.updated_by = uid,
              !.started_at = IF status = "in_progress" THEN t ELSE @,
              !.completed_at = IF status = "done" THEN t
                               ELSE IF status = "in_progress" THEN NULL ELSE @]

\* mutant: the cached list is not patched
PatchCacheStale(sq, data) == sq

\* setStops(prev => prev.map(s => s.id === stopId ? data : s))
PatchCache(sq, data) ==
  [i \in 1..Len(sq) |-> IF sq[i].id = data.id THEN data ELSE sq[i]]

\* mutant: the update is not restricted to the row with the id
WriteStatusAllRows(db, sq, id, status, uid, t) ==
  LET data == StatusUpdate(db[id], status, uid, t)
  IN [db |-> [i \in DOMAIN db |-> StatusUpdate(db[i], status, uid, t)],
      cache |-> PatchCache(sq, data)]

\* one updateStopStatus write against storage db and cache sq at time t;
\* .single() reports an error when no row has the id
WriteStatus(db, sq, id, status, uid, t) ==
  LET data == StatusUpdate(db[id], status, uid, t)
  IN [db |-> [db EXCEPT ![id] = data], cache |-> PatchCache(sq, data)]

\* ---- derived train facts ------------------------------------------------
completedCount(db) == Cardinality({r \in Rows(db) : r.status = "done"})
\* Index: releaseStops.every(s => s.status === 'done')
isComplete(db) == \A r \in Rows(db) : r.status = "done"
\* fetchAllReleases: trainStops.length > 0 && completedStops === trainStops.length
is_complete(db) ==
  Cardinality(DOMAIN db) > 0 /\ completedCount(db) = Cardinality(DOMAIN db)
\* TrainTrack: (completedCount / run.stops.length) * 100, for a non-empty train
progressPercent(db) == (completedCount(db) * 100) \div Cardinality(DOMAIN db)

\* ---- train creation ------------------------------------------------------
\* createReleaseTrain (started = FALSE): every stop not_started
\* CreateTrack.handleSubmit (started = TRUE): the first stop in_progress, started at t
CreatedStops(n, started, t) ==
  [i \in 1..n |->
     IF started /\ i = 1 THEN NewStop(i, i, "in_progress", t)
     ELSE NewStop(i, i, "not_started", NULL)]

\* ---- Init: a train created by createReleaseTrain, the caches fetched -----
Init ==
  /\ now = 1
  /\ \E n \in 0..MaxStops :
       /\ dbStops = CreatedStops(n, FALSE, NULL)
       /\ stops = [s \in Sessions |-> CreatedStops(n, FALSE, NULL)]
       /\ issued = n
  /\ dbNotes = {}
  /\ dbTrains = 1
  /\ irregular = 0
  /\ releases = <<>>
  /\ shown = NotShown
  /\ outcome = [op |-> "init", by |-> "u1", result |-> OK, stop |-> 0]
  /\ inflight = [s \in Sessions |-> NoCall]
  /\ loginToken = NoToken
  /\ validate = [r \in Requests |-> NotAsked]

Done(op, s, result, id) ==
  outcome' = [op |-> op, by |-> s, result |-> result, stop |-> id]

\* a storage call fails: one more fault
Fault == irregular < MaxIrregular /\ irregular' = irregular + 1
NoFault == irregular' = irregular

\* ---- the clock ----------------------------------------------------------
Tick ==
  /\ now < MaxTime
  /\ now' = now + 1
  /\ UNCHANGED <<dbStops, dbNotes, dbTrains, stops, outcome, irregular, issued, releases, shown,
               inflight, loginToken, validate>>

\* ---- fetchReleaseTrains -------------------------------------------------
\* a failed query is caught (setError) and leaves the cache as it is
FetchReleaseTrains(s) ==
  /\ \/ /\ \E sq \in OrderByNumber(Rows(dbStops)) : stops' = [stops EXCEPT ![s] = sq]
        /\ NoFault
     \/ /\ UNCHANGED stops
        /\ Fault
  /\ UNCHANGED <<dbStops, dbNotes, dbTrains, now, outcome, issued, releases, shown,
               inflight, loginToken, validate>>

\* ---- updateStopStatus ---------------------------------------------------
\* the handler called directly (the stop controls of the UI)
UpdateStopStatusCall(s, id, status) ==
  /\ IF ~canEdit(s)
     THEN /\ Done("updateStopStatus", s, E_PERM, 0)
          /\ UNCHANGED <<dbStops, stops>>
     ELSE IF id \notin DOMAIN dbStops
     THEN /\ Done("updateStopStatus", s, E_STORAGE, 0)
          /\ UNCHANGED <<dbStops, stops>>
     ELSE \/ /\ LET w == WriteStatus(dbStops, stops[s], id, status, s, now)
                IN /\ dbStops' = w.db
                   /\ stops' = [stops EXCEPT ![s] = w.cache]
             /\ Done("updateStopStatus", s, OK, 0)
          \/ /\ Done("updateStopStatus", s, E_STORAGE, 0)
             /\ UNCHANGED <<dbStops, stops>>
  /\ UNCHANGED <<dbNotes, dbTrains, now, issued, releases, shown,
               inflight, loginToken, validate>>

\* a direct call where such calls are counted as irregular
UpdateStopStatus(s, id, status) ==
  /\ irregular < MaxIrregular
  /\ irregular' = irregular + 1
  /\ UpdateStopStatusCall(s, id, status)

\* ---- advanceToNextStop --------------------------------------------------
\* two updateStopStatus calls; the clock may move between them
AdvanceToNextStop(s) ==
  LET trainStops == stops[s]
      currentIndex == FirstInProgress(trainStops)
  IN
  /\ IF ~canEdit(s)
     THEN /\ Done("advanceToNextStop", s, E_PERM, 0)
          /\ UNCHANGED <<dbStops, stops, now>>
          /\ NoFault
     ELSE IF currentIndex = 0
     THEN /\ Done("advanceToNextStop", s, OK, 0)
          /\ UNCHANGED <<dbStops, stops, now>>
          /\ NoFault
     ELSE
     LET cur == trainStops[currentIndex].id IN
     IF cur \notin DOMAIN dbStops
     THEN /\ Done("advanceToNextStop", s, E_STORAGE, 0)
          /\ UNCHANGED <<dbStops, stops, now>>
          /\ NoFault
     ELSE
     \/ \* the first write fails
        /\ Done("advanceToNextStop", s, E_STORAGE, 0)
        /\ Fault
        /\ UNCHANGED <<dbStops, stops, now>>
     \/ LET w1 == WriteStatus(dbStops, trainStops, cur, "done", s, now) IN
        IF currentIndex < Len(trainStops)
        THEN LET nxt == trainStops[currentIndex + 1].id IN
             \E t2 \in now..MaxTime :
               /\ now' = t2
               /\ \/ /\ nxt \in DOMAIN w1.db
                     /\ LET w2 == WriteStatus(w1.db, w1.cache, nxt, "in_progress", s, t2)
                        IN /\ dbStops' = w2.db
                           /\ stops' = [stops EXCEPT ![s] = w2.cache]
                     /\ Done("advanceToNextStop", s, OK, cur)
                     /\ NoFault
                  \/ \* the second write fails
                     /\ dbStops' = w1.db
                     /\ stops' = [stops EXCEPT ![s] = w1.cache]
                     /\ Done("advanceToNextStop", s, E_STORAGE, 0)
                     /\ IF nxt \in DOMAIN w1.db THEN Fault ELSE NoFault
        ELSE /\ dbStops' = w1.db
             /\ stops' = [stops EXCEPT ![s] = w1.cache]
             /\ now' = now
             /\ Done("advanceToNextStop", s, OK, cur)
             /\ NoFault
  /\ UNCHANGED <<dbNotes, dbTrains, issued, releases, shown,
               inflight, loginToken, validate>>

\* ---- startTrain ---------------------------------------------------------
\* the checks startTrain makes on the cached list before it writes
StartTrainCheck(trainStops) ==
  LET first == FirstNumberOne(trainStops) IN
  IF first = 0 THEN E_NOSTOPS
  ELSE IF trainStops[first].status # "not_started" THEN E_STARTED
  ELSE OK

StartTrain(s) ==
  LET trainStops == stops[s]
      first == FirstNumberOne(trainStops)
  IN
  /\ IF ~canEdit(s)
     THEN /\ Done("startTrain", s, E_PERM, 0)
          /\ UNCHANGED <<dbStops, stops, irregular>>
     ELSE IF StartTrainCheck(trainStops) # OK
     THEN /\ Done("startTrain", s, StartTrainCheck(trainStops), 0)
          /\ UNCHANGED <<dbStops, stops, irregular>>
     ELSE LET id == trainStops[first].id IN
          IF id \notin DOMAIN dbStops
          THEN /\ Done("startTrain", s, E_STORAGE, 0)
               /\ UNCHANGED <<dbStops, stops, irregular>>
          ELSE
          \/ /\ LET w == WriteStatus(dbStops, trainStops, id, "in_progress", s, now)
                IN /\ dbStops' = w.db
                   /\ stops' = [stops EXCEPT ![s] = w.cache]
             /\ Done("startTrain", s, OK, 0)
             /\ NoFault
          \/ /\ Done("startTrain", s, E_STORAGE, 0)
             /\ Fault
             /\ UNCHANGED <<dbStops, stops>>
  /\ UNCHANGED <<dbNotes, dbTrains, now, issued, releases, shown,
               inflight, loginToken, validate>>

\* ---- resetTrain ---------------------------------------------------------
\* mutant: the timestamps are not cleared
ResetRowKeepTimes(row, uid) ==
  [row EXCEPT !.status = "not_started", !.updated_by = uid]

\* update({status: 'not_started', started_at: null, completed_at: null, updated_by})
ResetRow(row, uid) ==
  [row EXCEPT !.status = "not_started", !.started_at = NULL,
              !.completed_at = NULL, !.updated_by = uid]

\* the rows of the first k cached stops reset; an update whose id matches no
\* row changes nothing and is no error
ResetFirst(db, sq, k, uid) ==
  [i \in DOMAIN db |->
     IF \E j \in 1..k : sq[j].id = i THEN ResetRow(db[i], uid) ELSE db[i]]

ResetTrain(s) ==
  LET trainStops == stops[s] IN
  /\ IF ~canEdit(s)
     THEN /\ Done("resetTrain", s, E_PERM, 0)
          /\ UNCHANGED <<dbStops, stops, irregular>>
     ELSE \/ \* the update of stop k fails: the loop throws, nothing is refetched
             \E k \in 1..Len(trainStops) :
               /\ dbStops' = ResetFirst(dbStops, trainStops, k - 1, s)
               /\ Done("resetTrain", s, E_STORAGE, 0)
               /\ Fault
               /\ UNCHANGED stops
          \/ \* every update succeeds, then fetchReleaseTrains
             /\ dbStops' = ResetFirst(dbStops, trainStops, Len(trainStops), s)
             /\ \/ /\ \E sq \in OrderByNumber(Rows(dbStops')) :
                        stops' = [stops EXCEPT ![s] = sq]
                   /\ NoFault
                \/ /\ UNCHANGED stops
                   /\ Fault
             /\ Done("resetTrain", s, OK, 0)
  /\ UNCHANGED <<dbNotes, dbTrains, now, issued, releases, shown,
               inflight, loginToken, validate>>

\* ---- addNote ------------------------------------------------------------
AddNote(s, id) ==
  /\ Cardinality(dbNotes) < MaxNotes
  /\ IF ~canEdit(s) \/ id \notin DOMAIN dbStops
     THEN UNCHANGED <<dbNotes, irregular>>
     ELSE \/ /\ dbNotes' = dbNotes \cup
                  {[id |-> Cardinality(dbNotes) + 1, stop_id |-> id, author_id |-> s]}
             /\ NoFault
          \/ /\ UNCHANGED dbNotes
             /\ Fault
  /\ UNCHANGED <<dbStops, dbTrains, stops, now, outcome, issued, releases, shown,
               inflight, loginToken, validate>>

\* ---- createReleaseTrain ---------------------------------------------------
\* inserts a release_trains row, then the stops of the new train (which are not
\* stops of the train followed here).  The hook checks appId and platform only;
\* the policy "Only admins can insert release trains" makes storage reject the
\* insert of a caller who is not an admin.
CreateReleaseTrain(s) ==
  /\ dbTrains < MaxTrains
  /\ IF ~isAdmin(s)
     THEN /\ Done("createReleaseTrain", s, E_RLS, 0)
          /\ UNCHANGED <<dbTrains, irregular>>
     ELSE \/ \* the insert of the train fails
             /\ Done("createReleaseTrain", s, E_STORAGE, 0)
             /\ Fault
             /\ UNCHANGED dbTrains
          \/ \* the insert of the stops fails: the train row stays
             /\ dbTrains' = dbTrains + 1
             /\ Done("createReleaseTrain", s, E_STORAGE, 0)
             /\ Fault
          \/ /\ dbTrains' = dbTrains + 1
             /\ Done("createReleaseTrain", s, OK, 0)
             /\ NoFault
  /\ UNCHANGED <<dbStops, dbNotes, stops, now, issued, releases, shown,
               inflight, loginToken, validate>>

\* ---- the stop roster editor (useAllReleases) ------------------------------
\* deleteStops: the rows left when the stops with ids del are deleted
DeletedStops(db, del) == [i \in DOMAIN db \ del |-> db[i]]

\* deleteStops: notes.delete().in('stop_id', stopIds)
DeletedNotes(notes, del) == {n \in notes : n.stop_id \notin del}

\* mutant: the stops are deleted first, the notes second, nothing cascades
DeleteStopsStopsFirst(db, notes, del, k) ==
  [db |-> IF k >= 1 THEN DeletedStops(db, del) ELSE db,
   notes |-> IF k >= 2 THEN DeletedNotes(notes, del) ELSE notes]

\* deleteStops: the tables after the first k of its two deletes (the notes of
\* the stops, then the stops, whose delete cascades to their notes)
DeleteStopsSteps(db, notes, del, k) ==
  [db |-> IF k >= 2 THEN DeletedStops(db, del) ELSE db,
   notes |-> IF k >= 1 THEN DeletedNotes(notes, del) ELSE notes]

DeleteStops(s, del) ==
  /\ del \subseteq DOMAIN dbStops
  /\ Cardinality(del) <= MaxDelete
  /\ IF ~isAdmin(s)
     THEN /\ Done("deleteStops", s, E_ADMIN_DELETE, 0)
          /\ UNCHANGED <<dbStops, dbNotes, irregular>>
     ELSE IF del = {}
     THEN /\ Done("deleteStops", s, OK, 0)
          /\ UNCHANGED <<dbStops, dbNotes, irregular>>
     ELSE \E k \in 0..2 :
            LET t == DeleteStopsSteps(dbStops, dbNotes, del, k) IN
            /\ dbStops' = t.db
            /\ dbNotes' = t.notes
            /\ IF k < 2
               THEN Done("deleteStops", s, E_STORAGE, 0) /\ Fault
               ELSE Done("deleteStops", s, OK, 0) /\ NoFault
  /\ UNCHANGED <<dbTrains, stops, now, issued, releases, shown,
               inflight, loginToken, validate>>

\* addStops: the rows inserted for the provisional numbers toAdd, ids first+1..
AddedStops(db, toAdd, first) ==
  [i \in DOMAIN db \cup {first + k : k \in 1..Len(toAdd)} |->
     IF i \in DOMAIN db THEN db[i]
     ELSE NewStop(i, toAdd[i - first], "not_started", NULL)]

\* the renumbering pass over the fetched, sorted list: the stop at position i
\* gets number i when it differs; the updates at the positions in failed are
\* rejected by storage, which the loop does not look at
Renumbered(db, sorted, failed) ==
  [id \in DOMAIN db |->
     IF \E i \in 1..Len(sorted) :
          sorted[i].id = id /\ sorted[i].number # i /\ i \notin failed
     THEN [db[id] EXCEPT !.number =
             CHOOSE i \in 1..Len(sorted) : sorted[i].id = id]
     ELSE db[id]]

\* the provisional stop lists the editor can submit
ToAddLists == UNION {[1..k -> 1..(MaxStops + MaxAdd)] : k \in 0..MaxAdd}

UpdateReleaseStops(s, toAdd, toDelete) ==
  /\ issued + Len(toAdd) <= MaxStops + MaxAdd
  /\ toDelete \subseteq DOMAIN dbStops
  /\ Cardinality(toDelete) <= MaxDelete
  /\ IF ~isAdmin(s)
     THEN /\ Done("updateReleaseStops", s, E_ADMIN, 0)
          /\ UNCHANGED <<dbStops, dbNotes, irregular, issued>>
     ELSE
     LET db1 == DeletedStops(dbStops, toDelete)
         notes1 == DeletedNotes(dbNotes, toDelete)
         db2 == AddedStops(db1, toAdd, issued)
     IN
     \/ \* deleteStops: the delete of the notes fails
        /\ toDelete # {}
        /\ Fault
        /\ Done("updateReleaseStops", s, E_STORAGE, 0)
        /\ UNCHANGED <<dbStops, dbNotes, issued>>
     \/ \* deleteStops: the delete of the stops fails
        /\ toDelete # {}
        /\ Fault
        /\ dbNotes' = notes1
        /\ Done("updateReleaseStops", s, E_STORAGE, 0)
        /\ UNCHANGED <<dbStops, issued>>
     \/ \* addStops: the insert fails
        /\ toAdd # <<>>
        /\ Fault
        /\ dbStops' = db1
        /\ dbNotes' = notes1
        /\ Done("updateReleaseStops", s, E_STORAGE, 0)
        /\ UNCHANGED issued
     \/ \* fetchReleaseStops fails
        /\ Fault
        /\ dbStops' = db2
        /\ dbNotes' = notes1
        /\ issued' = issued + Len(toAdd)
        /\ Done("updateReleaseStops", s, E_STORAGE, 0)
     \/ \* the renumbering pass runs to its end
        \E sorted \in OrderByNumber(Rows(db2)) :
        \E failed \in SUBSET {i \in 1..Len(sorted) : sorted[i].number # i} :
          /\ irregular + Cardinality(failed) <= MaxIrregular
          /\ irregular' = irregular + Cardinality(failed)
          /\ dbStops' = Renumbered(db2, sorted, failed)
          /\ dbNotes' = notes1
          /\ issued' = issued + Len(toAdd)
          /\ Done("updateReleaseStops", s, OK, 0)
  /\ UNCHANGED <<dbTrains, stops, now, releases, shown,
               inflight, loginToken, validate>>

\* ---- Dashboard: compareVersions -------------------------------------------
\* a version string is the sequence of its characters
Digits == <<"0", "1", "2", "3", "4", "5", "6", "7", "8", "9">>
IsDigit(c) == \E d \in 1..10 : Digits[d] = c
IsDigitOrDot(c) == IsDigit(c) \/ c = "."

\* a.replace(/[^0-9.]/g, '')
Strip(v) == SelectSeq(v, IsDigitOrDot)

\* .split('.'): the segments between the dots; the empty string gives one
\* empty segment
RECURSIVE Split(_)
Split(v) ==
  IF \A i \in 1..Len(v) : v[i] # "." THEN <<v>>
  ELSE LET i == CHOOSE k \in 1..Len(v) :
                  v[k] = "." /\ \A j \in 1..(k - 1) : v[j] # "."
       IN <<SubSeq(v, 1, i - 1)>> \o Split(SubSeq(v, i + 1, Len(v)))

\* Number(segment) of a string of digits; Number('') is 0 (the strings here are
\* short enough for the conversion to be exact)
RECURSIVE ToNumber(_)
ToNumber(seg) ==
  IF seg = <<>> THEN 0
  ELSE 10 * ToNumber(SubSeq(seg, 1, Len(seg) - 1))
         + (CHOOSE d \in 0..9 : Digits[d + 1] = seg[Len(seg)])

\* a.replace(...).split('.').map(Number)
Parts(v) == LET segs == Split(Strip(v)) IN [i \in 1..Len(segs) |-> ToNumber(segs[i])]

\* parts[i] || 0
PartOrZero(parts, i) == IF i <= Len(parts) THEN parts[i] ELSE 0

\* mutant: a missing segment counts as smaller than any segment
compareVersionsNoPad(a, b) ==
  LET partsA == Parts(a)
      partsB == Parts(b)
      At(p, i) == IF i <= Len(p) THEN p[i] ELSE 0 - 1
      n == IF Len(partsA) > Len(partsB) THEN Len(partsA) ELSE Len(partsB)
      differ == {i \in 1..n : At(partsA, i) # At(partsB, i)}
  IN IF differ = {} THEN 0
     ELSE LET i == CHOOSE k \in differ : \A j \in differ : k <= j
          IN IF At(partsA, i) > At(partsB, i) THEN 1 ELSE 0 - 1

\* the loop returns at the first index where the two numbers differ
compareVersions(a, b) ==
  LET partsA == Parts(a)
      partsB == Parts(b)
      n == IF Len(partsA) > Len(partsB) THEN Len(partsA) ELSE Len(partsB)
      differ == {i \in 1..n : PartOrZero(partsA, i) # PartOrZero(partsB, i)}
  IN IF differ = {} THEN 0
     ELSE LET i == CHOOSE k \in differ : \A j \in differ : k <= j
          IN IF PartOrZero(partsA, i) > PartOrZero(partsB, i) THEN 1 ELSE 0 - 1

\* the version strings compared: every string of at most MaxLen characters
\* over VersionChars, and some longer ones
VersionChars == {"1", "2", "."}
ShortVersions == UNION {[1..k -> VersionChars] : k \in 0..MaxLen}
LongVersions ==
  { <<"1", ".", "2", ".", "0">>,
    <<"v", "1", ".", "2", ".", "0">>,
    <<"1", ".", "1", "0", ".", "0">>,
    <<"v", "1", ".", "1", "0", ".", "0">>,
    <<"0", "1", ".", "2">>,
    <<"1", ".", "1">>,
    <<"2", ".", "0", ".", "1">>,
    <<"1", ".", "2", "-", "r", "c", "1">> }
Versions == ShortVersions \cup LongVersions

\* ---- Dashboard: the classification useMemo ---------------------------------
\* a track is (app_id, platform); one app on its two platforms
Tracks == {"ios", "android"}

\* trackMap.get(trackKey): the releases of a track, in list order
TrackOf(rs, k) == SelectSeq(rs, LAMBDA r : r.track = k)

\* [...trackReleases].sort((a, b) => compareVersions(b.version, a.version)):
\* highest version first, releases that compare equal keep their order
RECURSIVE SortByVersion(_)
SortByVersion(sq) ==
  IF sq = <<>> THEN <<>>
  ELSE LET x == Head(sq)
           rest == SortByVersion(Tail(sq))
           k == Cardinality({i \in 1..Len(rest) :
                               compareVersions(rest[i].version, x.version) = 1})
       IN SubSeq(rest, 1, k) \o <<x>> \o SubSeq(rest, k + 1, Len(rest))

\* list.sort((a, b) => new Date(b.updated_at) - new Date(a.updated_at))
RECURSIVE SortByUpdated(_)
SortByUpdated(sq) ==
  IF sq = <<>> THEN <<>>
  ELSE LET x == Head(sq)
           rest == SortByUpdated(Tail(sq))
           k == Cardinality({i \in 1..Len(rest) : rest[i].updated_at > x.updated_at})
       IN SubSeq(rest, 1, k) \o <<x>> \o SubSeq(rest, k + 1, Len(rest))

\* mutant: every release that is not complete is shown as current
ListOfAllCurrent(sorted, release) ==
  IF ~release.is_complete THEN "currentActive"
  ELSE LET completedInTrack == SelectSeq(sorted, LAMBDA r : r.is_complete)
       IN IF completedInTrack[1].id = release.id THEN "recentlyCompleted"
          ELSE "archived"

\* the list a release of the sorted track is pushed to
ListOf(sorted, release) ==
  LET active == SelectSeq(sorted, LAMBDA r : ~r.is_complete)
      completedInTrack == SelectSeq(sorted, LAMBDA r : r.is_complete)
  IN IF ~release.is_complete
     THEN IF active[1].id = release.id THEN "currentActive" ELSE "archived"
     ELSE IF completedInTrack[1].id = release.id THEN "recentlyCompleted"
          ELSE "archived"

\* sorted.forEach(release => ...): each release with the list it goes to
Labelled(sorted) ==
  [k \in 1..Len(sorted) |-> [release |-> sorted[k], list |-> ListOf(sorted, sorted[k])]]

\* trackMap.forEach: the tracks in the order of their first release, from
\* position from on
RECURSIVE Pushed(_, _)
Pushed(rs, from) ==
  LET firsts == {i \in from..Len(rs) : \A j \in 1..(i - 1) : rs[j].track # rs[i].track}
  IN IF firsts = {} THEN <<>>
     ELSE LET i == CHOOSE k \in firsts : \A j \in firsts : k <= j
          IN Labelled(SortByVersion(TrackOf(rs, rs[i].track))) \o Pushed(rs, i + 1)

\* the releases pushed to one list, sorted by updated_at, newest first
ListContent(pushed, list) ==
  LET sel == SelectSeq(pushed, LAMBDA e : e.list = list)
  IN SortByUpdated([k \in 1..Len(sel) |-> sel[k].release])

Classification(rs) ==
  LET pushed == Pushed(rs, 1)
  IN [rendered |-> TRUE,
      currentActive |-> ListContent(pushed, "currentActive"),
      recentlyCompleted |-> ListContent(pushed, "recentlyCompleted"),
      archived |-> ListContent(pushed, "archived")]

\* the Dashboard renders: useMemo computes the three lists from releases
Classify ==
  /\ ~shown.rendered
  /\ shown' = Classification(releases)
  /\ UNCHANGED <<dbStops, dbNotes, dbTrains, stops, now, outcome, irregular, issued, releases,
               inflight, loginToken, validate>>

\* a release list as fetchAllReleases delivers it: ordered by updated_at,
\* newest first; (app_id, platform, version) is unique
ReleaseList(n, f) ==
  [i \in 1..n |-> [id |-> i, track |-> f[i].track, version |-> f[i].version,
                   is_complete |-> f[i].is_complete, updated_at |-> n - i + 1]]

UniqueVersions(rs) ==
  \A i, j \in 1..Len(rs) :
    (rs[i].track = rs[j].track /\ rs[i].version = rs[j].version) => i = j

\* the engine is idle while the Dashboard is looked at
EngineOnly ==
  /\ now = 1
  /\ dbStops = <<>>
  /\ stops = [s \in Sessions |-> <<>>]
  /\ issued = 0
  /\ dbNotes = {}
  /\ dbTrains = 1
  /\ irregular = 0
  /\ outcome = [op |-> "init", by |-> "u1", result |-> OK, stop |-> 0]

EngineIdle ==
  /\ EngineOnly
  /\ inflight = [s \in Sessions |-> NoCall]
  /\ loginToken = NoToken
  /\ validate = [r \in Requests |-> NotAsked]

\* ---- the Dashboard over the releases of two tracks ------------------------
TrackVersions ==
  { <<"1", ".", "2">>, <<"1", ".", "2", ".", "0">>, <<"1", ".", "1", "0", ".", "0">> }

InitDash ==
  /\ EngineIdle
  /\ \E n \in 0..MaxReleases :
       \E f \in [1..n -> [track : Tracks, version : TrackVersions, is_complete : BOOLEAN]] :
         /\ releases = ReleaseList(n, f)
         /\ UniqueVersions(releases)
  /\ shown = NotShown

NextDash == Classify

SpecDash == InitDash /\ [][NextDash]_vars

\* ---- the Dashboard over two open releases of one track, any two versions --
InitVersions ==
  /\ EngineIdle
  /\ \E a, b \in Versions :
       /\ a # b
       /\ releases = ReleaseList(2, <<[track |-> "ios", version |-> a, is_complete |-> FALSE],
                                      [track |-> "ios", version |-> b, is_complete |-> FALSE]>>)
  /\ shown = NotShown

SpecVersions == InitVersions /\ [][NextDash]_vars

\* ---- one session working through the progression engine -----------------
CachedIds(s) == {stops[s][i].id : i \in 1..Len(stops[s])}

Next ==
  \/ Tick
  \/ FetchReleaseTrains("u1")
  \/ \E id \in CachedIds("u1"), st \in Statuses : UpdateStopStatus("u1", id, st)
  \/ AdvanceToNextStop("u1")
  \/ StartTrain("u1")
  \/ ResetTrain("u1")

Spec == Init /\ [][Next]_vars

\* ---- the session starting, advancing and resetting the train, flagging
\* ---- stops as blocked and writing notes on the first stop -----------------
FirstCachedId(s) == {stops[s][i].id : i \in {j \in 1..Len(stops[s]) : j = 1}}

NextNotes ==
  \/ Tick
  \/ \E id \in CachedIds("u1") : UpdateStopStatus("u1", id, "blocked")
  \/ FetchReleaseTrains("u1")
  \/ AdvanceToNextStop("u1")
  \/ StartTrain("u1")
  \/ ResetTrain("u1")
  \/ \E id \in FirstCachedId("u1") : AddNote("u1", id)

SpecNotes == Init /\ [][NextNotes]_vars

\* ---- the admin editing the roster of a train the session fetches and may
\* ---- start ----------------------------------------------------------------
NextRoster ==
  \/ FetchReleaseTrains("u1")
  \/ StartTrain("u1")
  \/ \E toAdd \in ToAddLists, toDelete \in SUBSET DOMAIN dbStops :
       UpdateReleaseStops("u2", toAdd, toDelete)

SpecRoster == Init /\ [][NextRoster]_vars

\* ---- an editing session and an admin session on the same train ----------
\* StopsEditorDialog.addNewStop: the provisional number of a new stop
EditorNumber(db) ==
  IF DOMAIN db = {} THEN 1
  ELSE 1 + CHOOSE m \in {db[i].number : i \in DOMAIN db} :
             \A i \in DOMAIN db : db[i].number <= m

\* u1 runs the progression engine from its cached list while the admin u2
\* appends stops in the roster editor
NextShared ==
  \/ Tick
  \/ FetchReleaseTrains("u1")
  \/ AdvanceToNextStop("u1")
  \/ StartTrain("u1")
  \/ ResetTrain("u1")
  \/ \E id \in FirstCachedId("u1") : AddNote("u1", id)
  \/ UpdateReleaseStops("u2", <<EditorNumber(dbStops)>>, {})

SpecShared == Init /\ [][NextShared]_vars

\* ---- the session editing the status of the first stop through the stop
\* ---- controls, any number of times ---------------------------------------
EditStop(s, id, status) == UpdateStopStatusCall(s, id, status) /\ UNCHANGED irregular

NextEdit ==
  \/ Tick
  \/ StartTrain("u1")
  \/ \E id \in FirstCachedId("u1"), st \in Statuses : EditStop("u1", id, st)

SpecEdit == Init /\ [][NextEdit]_vars

\* ---- the session writing notes on the stops it has cached while the admin
\* ---- deletes stops ---------------------------------------------------------
NextDelete ==
  \/ FetchReleaseTrains("u1")
  \/ StartTrain("u1")
  \/ \E id \in CachedIds("u1") : AddNote("u1", id)
  \/ \E del \in SUBSET DOMAIN dbStops : DeleteStops("u2", del)
  \/ \E del \in SUBSET DOMAIN dbStops : UpdateReleaseStops("u2", <<>>, del)

SpecDelete == Init /\ [][NextDelete]_vars

\* ---- sessions of every role calling the writing operations ---------------
\* u1 may edit but is no admin, u3 holds no role, u2 is the admin
NonAdmins == {s \in Sessions : ~isAdmin(s)}

NextCaps ==
  \/ \E s \in NonAdmins : StartTrain(s)
  \/ \E s \in NonAdmins : AdvanceToNextStop(s)
  \/ \E s \in NonAdmins : ResetTrain(s)
  \/ \E id \in FirstCachedId("u3") : UpdateStopStatus("u3", id, "blocked")
  \/ \E s \in NonAdmins : \E id \in FirstCachedId(s) : AddNote(s, id)
  \/ \E s \in NonAdmins : UpdateReleaseStops(s, <<EditorNumber(dbStops)>>, {})
  \/ \E s \in Sessions : CreateReleaseTrain(s)

SpecCaps == Init /\ [][NextCaps]_vars

\* ---- two sessions that may edit, each driving the engine from its own
\* ---- cached list -----------------------------------------------------------
Editors == {"u1", "u2"}

NextTwo ==
  \/ \E s \in Editors : FetchReleaseTrains(s)
  \/ \E s \in Editors : StartTrain(s)
  \/ \E s \in Editors : AdvanceToNextStop(s)

SpecTwo == Init /\ [][NextTwo]_vars

\* ---- the session advancing a train whose writes can fail, and starting by
\* ---- hand the first stop not yet started when no stop is in progress --------
\* the stop control "Start" on the first not_started stop of the cached list
NextToStart(s) ==
  {stops[s][k].id : k \in {j \in 1..Len(stops[s]) :
       /\ stops[s][j].status = "not_started"
       /\ \A i \in 1..Len(stops[s]) : stops[s][i].status # "in_progress"
       /\ \A i \in 1..(j - 1) : stops[s][i].status # "not_started"}}

NextRecover ==
  \/ Tick
  \/ FetchReleaseTrains("u1")
  \/ StartTrain("u1")
  \/ AdvanceToNextStop("u1")
  \/ \E id \in NextToStart("u1") : EditStop("u1", id, "in_progress")

SpecRecover == Init /\ [][NextRecover]_vars

\* the same calls, with updateStopStatus(id, in_progress) on any cached stop that
\* is not_started (the handler accepts any stop of the train)
NotStartedIds(s) ==
  {stops[s][k].id : k \in {j \in 1..Len(stops[s]) : stops[s][j].status = "not_started"}}

NextRecoverEdit ==
  \/ Tick
  \/ FetchReleaseTrains("u1")
  \/ StartTrain("u1")
  \/ AdvanceToNextStop("u1")
  \/ \E id \in NotStartedIds("u1") : EditStop("u1", id, "in_progress")

SpecRecoverEdit == Init /\ [][NextRecoverEdit]_vars

\* ---- advanceToNextStop, write by write -----------------------------------
\* The same handler with its awaits as steps, for calls of different sessions
\* that overlap: the call reads the cached list once, then issues the update
\* of the current stop, and after it the update of the next stop.
AdvanceBegin(s) ==
  LET trainStops == stops[s]
      currentIndex == FirstInProgress(trainStops)
  IN
  /\ inflight[s].stage \notin {"first", "second"}
  /\ inflight' = [inflight EXCEPT ![s] =
       IF ~canEdit(s) THEN [stage |-> "threw", cur |-> 0, nxt |-> 0]
       ELSE IF currentIndex = 0 THEN [stage |-> "returned", cur |-> 0, nxt |-> 0]
       ELSE [stage |-> "first",
             cur |-> trainStops[currentIndex].id,
             nxt |-> IF currentIndex < Len(trainStops)
                     THEN trainStops[currentIndex + 1].id ELSE 0]]
  /\ UNCHANGED <<dbStops, dbNotes, dbTrains, stops, now, outcome, irregular, issued,
                 releases, shown, loginToken, validate>>

\* await updateStopStatus(currentStop.id, 'done')
AdvanceFirstWrite(s) ==
  LET call == inflight[s] IN
  /\ call.stage = "first"
  /\ \/ /\ call.cur \in DOMAIN dbStops
        /\ LET w == WriteStatus(dbStops, stops[s], call.cur, "done", s, now)
           IN /\ dbStops' = w.db
              /\ stops' = [stops EXCEPT ![s] = w.cache]
        /\ inflight' = [inflight EXCEPT ![s].stage =
                          IF call.nxt = 0 THEN "returned" ELSE "second"]
        /\ NoFault
     \/ \* the update fails or matches no row: the call throws
        /\ inflight' = [inflight EXCEPT ![s].stage = "threw"]
        /\ IF call.cur \in DOMAIN dbStops THEN Fault ELSE NoFault
        /\ UNCHANGED <<dbStops, stops>>
  /\ UNCHANGED <<dbNotes, dbTrains, now, outcome, issued, releases, shown,
                 loginToken, validate>>

\* await updateStopStatus(trainStops[currentIndex + 1].id, 'in_progress')
AdvanceSecondWrite(s) ==
  LET call == inflight[s] IN
  /\ call.stage = "second"
  /\ \/ /\ call.nxt \in DOMAIN dbStops
        /\ LET w == WriteStatus(dbStops, stops[s], call.nxt, "in_progress", s, now)
           IN /\ dbStops' = w.db
              /\ stops' = [stops EXCEPT ![s] = w.cache]
        /\ inflight' = [inflight EXCEPT ![s].stage = "returned"]
        /\ NoFault
     \/ /\ inflight' = [inflight EXCEPT ![s].stage = "threw"]
        /\ IF call.nxt \in DOMAIN dbStops THEN Fault ELSE NoFault
        /\ UNCHANGED <<dbStops, stops>>
  /\ UNCHANGED <<dbNotes, dbTrains, now, outcome, issued, releases, shown,
                 loginToken, validate>>

\* no session has called advanceToNextStop write by write yet
Quiet == \A s \in Sessions : inflight[s] = NoCall

\* two sessions bring the train to some stop, then each calls
\* advanceToNextStop once and the writes of the two calls interleave
NextRace ==
  \/ Tick
  \/ \E s \in Editors : Quiet /\ FetchReleaseTrains(s)
  \/ Quiet /\ StartTrain("u1")
  \/ Quiet /\ AdvanceToNextStop("u1")
  \/ \E s \in Editors : inflight[s] = NoCall /\ AdvanceBegin(s)
  \/ \E s \in Editors : AdvanceFirstWrite(s)
  \/ \E s \in Editors : AdvanceSecondWrite(s)

SpecRace == Init /\ [][NextRace]_vars

\* ---- a train as created by either creation path, then driven and edited ---
\* createReleaseTrain creates every stop not_started; CreateTrack.handleSubmit
\* creates the first stop in_progress with started_at the creation time
InitCreated ==
  /\ now = 1
  /\ \E n \in 0..MaxStops, started \in BOOLEAN :
       /\ dbStops = CreatedStops(n, started, now)
       /\ stops = [s \in Sessions |-> CreatedStops(n, started, now)]
       /\ issued = n
  /\ dbNotes = {}
  /\ dbTrains = 1
  /\ irregular = 0
  /\ releases = <<>>
  /\ shown = NotShown
  /\ outcome = [op |-> "init", by |-> "u1", result |-> OK, stop |-> 0]
  /\ inflight = [s \in Sessions |-> NoCall]
  /\ loginToken = NoToken
  /\ validate = [r \in Requests |-> NotAsked]

SpecCreated == InitCreated /\ [][Next]_vars

\* ---- qr-login: the validate action -----------------------------------------
INVALID_TOKEN == "INVALID_TOKEN"
INTERNAL_ERROR == "INTERNAL_ERROR"
SUCCESS == "success"

\* the token a request presents: the one stored, or any other string
\* (malformed, or well-formed and not in the table)
Presented == {"stored", "other"}

Respond(r, response) ==
  validate' = [validate EXCEPT ![r] = [stage |-> "returned", response |-> response]]

\* the format check and the lookup .eq('token', token).single(), followed by
\* the unified validity test on the row that was read
ValidateLookup(r, tok) ==
  /\ validate[r].stage = "idle"
  /\ \/ /\ \/ tok = "other"
           \/ ~loginToken.present
           \/ loginToken.used_at # NULL
           \/ loginToken.expires_at < now
        /\ Respond(r, INVALID_TOKEN)
        /\ NoFault
     \/ \* the query fails: tokenError
        /\ tok = "stored"
        /\ Respond(r, INVALID_TOKEN)
        /\ Fault
     \/ /\ tok = "stored"
        /\ loginToken.present
        /\ loginToken.used_at = NULL
        /\ ~(loginToken.expires_at < now)
        /\ validate' = [validate EXCEPT ![r].stage = "checked"]
        /\ NoFault
  /\ UNCHANGED <<dbStops, dbNotes, dbTrains, stops, now, outcome, issued, releases,
                 shown, inflight, loginToken>>

\* update({used_at}).eq('id', id).is('used_at', null): a row already used is
\* left alone, and matching no row is not an error
ValidateMark(r) ==
  /\ validate[r].stage = "checked"
  /\ \/ /\ loginToken' = IF loginToken.present /\ loginToken.used_at = NULL
                          THEN [loginToken EXCEPT !.used_at = now]
                          ELSE loginToken
        /\ validate' = [validate EXCEPT ![r].stage = "marked"]
        /\ NoFault
     \/ \* updateError
        /\ Respond(r, INTERNAL_ERROR)
        /\ Fault
        /\ UNCHANGED loginToken
  /\ UNCHANGED <<dbStops, dbNotes, dbTrains, stops, now, outcome, issued, releases,
                 shown, inflight>>

\* getUserById and generateLink, then the response with the token hash
ValidateLink(r) ==
  /\ validate[r].stage = "marked"
  /\ \/ Respond(r, SUCCESS) /\ NoFault
     \/ Respond(r, INVALID_TOKEN) /\ Fault
     \/ Respond(r, INTERNAL_ERROR) /\ Fault
  /\ UNCHANGED <<dbStops, dbNotes, dbTrains, stops, now, outcome, issued, releases,
                 shown, inflight, loginToken>>

\* one token, generated earlier and not used, or none
InitTokens ==
  /\ EngineOnly
  /\ releases = <<>>
  /\ shown = NotShown
  /\ inflight = [s \in Sessions |-> NoCall]
  /\ validate = [r \in Requests |-> NotAsked]
  /\ \/ loginToken = NoToken
     \/ \E e \in 1..MaxTime :
          loginToken = [present |-> TRUE, expires_at |-> e, used_at |-> NULL]

NextTokens ==
  \/ Tick
  \/ \E r \in Requests, tok \in Presented : ValidateLookup(r, tok)
  \/ \E r \in Requests : ValidateMark(r)
  \/ \E r \in Requests : ValidateLink(r)

SpecTokens == InitTokens /\ [][NextTokens]_vars

\* one session that only starts and advances the train
NextLinear ==
  \/ Tick
  \/ StartTrain("u1")
  \/ AdvanceToNextStop("u1")

SpecLinear == Init /\ [][NextLinear]_vars

\* The operations the page offers an administrator: "Start the Train!" while
\* every cached stop is not_started, "Reset" once some stop is not, and for the
\* selected stop Start (not_started), Mark Done and Block (in_progress) or
\* Unblock (blocked).
Admin == "u2"

allNotStarted(sq) == \A k \in 1..Len(sq) : sq[k].status = "not_started"

isTrainStarted(sq) == \E k \in 1..Len(sq) : sq[k].status # "not_started"

IdsWithStatus(s, st) ==
  {stops[s][k].id : k \in {j \in 1..Len(stops[s]) : stops[s][j].status = st}}

onStart(id) == EditStop(Admin, id, "in_progress")

onComplete(id) == AdvanceToNextStop(Admin)

onBlock(id) == EditStop(Admin, id, "blocked")

onUnblock(id) == EditStop(Admin, id, "in_progress")

handleStartTrain == allNotStarted(stops[Admin]) /\ StartTrain(Admin)

handleResetTrain == isTrainStarted(stops[Admin]) /\ ResetTrain(Admin)

NextUI ==
  \/ Tick
  \/ FetchReleaseTrains(Admin)
  \/ handleStartTrain
  \/ handleResetTrain
  \/ \E id \in IdsWithStatus(Admin, "not_started") : onStart(id)
  \/ \E id \in IdsWithStatus(Admin, "in_progress") : onComplete(id)
  \/ \E id \in IdsWithStatus(Admin, "in_progress") : onBlock(id)
  \/ \E id \in IdsWithStatus(Admin, "blocked") : onUnblock(id)

SpecUI == Init /\ [][NextUI]_vars


\* ===========================================================================
\* Claims.  "The train as the session holds it" is the cached list stops[s]
\* the operation reads; effects are stated on the stored rows dbStops.
\* ===========================================================================
Me == "u1"
Cache == stops[Me]
Ids == DOMAIN dbStops

\* a step that is a call of the operation by the session
AdvanceCall == outcome'.op = "advanceToNextStop" /\ AdvanceToNextStop(Me)
StartCall == outcome'.op = "startTrain" /\ StartTrain(Me)
ResetCall == outcome'.op = "resetTrain" /\ ResetTrain(Me)

SameTimes(i) ==
  /\ dbStops'[i].started_at = dbStops[i].started_at
  /\ dbStops'[i].completed_at = dbStops[i].completed_at

SameStop(i) ==
  /\ dbStops'[i].status = dbStops[i].status
  /\ SameTimes(i)

\* C1: single active stop (one session): after any sequence of startTrain,
\* advanceToNextStop and updateStopStatus calls at most one stop of the train
\* is in_progress or blocked.
C1_SingleActiveStop ==
  Cardinality({i \in Ids : dbStops[i].status \in {"in_progress", "blocked"}}) <= 1

\* C2: contiguous numbering: after an updateReleaseStops call has returned,
\* the numbers of the train's stops in storage are exactly 1..N, N the count of
\* the stops, with no gap and no duplicate.
C2_ContiguousNumbering ==
  (outcome.op = "updateReleaseStops" /\ outcome.result = OK)
    => /\ {dbStops[i].number : i \in Ids} = 1..Cardinality(Ids)
       /\ \A i, j \in Ids : dbStops[i].number = dbStops[j].number => i = j

\* C3: advanceToNextStop effect: when stop k is the first in_progress stop and
\* both writes succeed, stop k is done with completed_at the call time, stop k+1
\* (if any) is in_progress with started_at the call time, on the last stop no
\* stop becomes in_progress and the train is complete exactly when all stops
\* are done, and every stop other than k and k+1 keeps status and timestamps.
C3_AdvanceEffect ==
  [][\A k \in 1..Len(Cache) :
       ( /\ Cache[k].status = "in_progress"
         /\ \A j \in 1..(k - 1) : Cache[j].status # "in_progress"
         /\ AdvanceCall
         /\ outcome'.result = OK )
       => LET cur == Cache[k].id
              nxt == IF k < Len(Cache) THEN Cache[k + 1].id ELSE 0
          IN /\ dbStops'[cur].status = "done"
             /\ dbStops'[cur].completed_at = now
             /\ nxt # 0 => /\ dbStops'[nxt].status = "in_progress"
                           /\ dbStops'[nxt].started_at \in now..now'
             /\ nxt = 0 => /\ \A i \in Ids : dbStops'[i].status = "in_progress"
                                              => dbStops[i].status = "in_progress"
                           /\ isComplete(dbStops') <=>
                                \A i \in Ids \ {cur} : dbStops[i].status = "done"
             /\ \A i \in Ids \ {cur, nxt} : SameStop(i)
    ]_vars

C3_Witness ==
  /\ outcome.op = "advanceToNextStop" /\ outcome.result = OK /\ outcome.stop = 2
  /\ Cardinality(Ids) = 3
  /\ dbStops[1].status = "done" /\ dbStops[1].completed_at = 1
  /\ dbStops[2].status = "done" /\ dbStops[2].completed_at = 2
  /\ dbStops[3].status = "in_progress" /\ dbStops[3].started_at = 2

\* C4: startTrain effect: on a train with at least one stop, all not_started,
\* a successful startTrain sets stop #1 to in_progress with started_at set and
\* leaves every other stop not_started with unchanged timestamps.
C4_StartTrainEffect ==
  [][( /\ Len(Cache) >= 1
       /\ \A k \in 1..Len(Cache) : Cache[k].status = "not_started"
       /\ StartCall
       /\ outcome'.result = OK )
     => \E f \in Ids :
          /\ dbStops[f].number = 1
          /\ dbStops'[f].status = "in_progress"
          /\ dbStops'[f].started_at = now
          /\ dbStops'[f].started_at # NULL
          /\ \A i \in Ids \ {f} : dbStops'[i].status = "not_started" /\ SameTimes(i)
    ]_vars

C4_Witness ==
  /\ outcome.op = "startTrain" /\ outcome.result = OK
  /\ Cardinality(Ids) = 3
  /\ dbStops[1].status = "in_progress" /\ dbStops[1].started_at = 2
  /\ dbStops[2].status = "not_started" /\ dbStops[3].status = "not_started"

\* C5: startTrain errors: startTrain fails with "No stops found" if and only if
\* the train it is called on has zero stops, fails with "Train already started"
\* whenever the train has stops and stop #1 is not not_started, and in both
\* failure cases no stop is modified.
C5_StartTrainErrors ==
  [][StartCall =>
       /\ (outcome'.result = E_NOSTOPS) <=> (Len(Cache) = 0)
       /\ (\E k \in 1..Len(Cache) : Cache[k].number = 1 /\ Cache[k].status # "not_started")
            => outcome'.result = E_STARTED
       /\ outcome'.result \in {E_NOSTOPS, E_STARTED} => dbStops' = dbStops
    ]_vars

\* C6: advanceToNextStop without an active stop: whenever no stop of the train
\* is in_progress (all not_started, all done, or only a blocked stop) the call
\* returns without error and leaves every stop's status, started_at,
\* completed_at and updated_by unchanged; on an all-done train isComplete stays
\* true and progress stays 100%.
C6_AdvanceNoop ==
  [][( /\ \A k \in 1..Len(Cache) : Cache[k].status # "in_progress"
       /\ AdvanceCall )
     => /\ outcome'.result = OK
        /\ dbStops' = dbStops
        /\ stops' = stops
        /\ (Ids # {} /\ \A i \in Ids : dbStops[i].status = "done")
             => isComplete(dbStops') /\ progressPercent(dbStops') = 100
    ]_vars

C6_Witness ==
  /\ outcome.op = "advanceToNextStop" /\ outcome.result = OK /\ outcome.stop = 0
  /\ \E i \in Ids : dbStops[i].status = "blocked"
  /\ \A i \in Ids : dbStops[i].status # "in_progress"

\* C7 (as claimed): advanceToNextStop twice in immediate succession advances
\* the train only once: the stop in_progress before the first call is done and
\* its immediate successor is in_progress, not done.
C7_AdvanceTwiceOnce ==
  [][\A k \in 1..(Len(Cache) - 1) :
       ( /\ outcome.op = "advanceToNextStop" /\ outcome.result = OK
         /\ outcome.stop = Cache[k].id
         /\ AdvanceCall
         /\ outcome'.result = OK )
       => /\ dbStops'[Cache[k].id].status = "done"
          /\ dbStops'[Cache[k + 1].id].status = "in_progress"
    ]_vars

\* C7 (amended): advanceToNextStop twice in succession, both calls succeeding
\* and the second reading the list as the first left it, advances the train
\* twice: the stop in_progress before the first call is done, its successor is
\* done too, and the stop after that (if any) is in_progress.
C7_AdvanceTwiceTwice ==
  [][\A k \in 1..(Len(Cache) - 1) :
       ( /\ outcome.op = "advanceToNextStop" /\ outcome.result = OK
         /\ outcome.stop = Cache[k].id
         /\ AdvanceCall
         /\ outcome'.result = OK )
       => /\ dbStops'[Cache[k].id].status = "done"
          /\ dbStops'[Cache[k + 1].id].status = "done"
          /\ outcome'.stop = Cache[k + 1].id
          /\ k + 2 <= Len(Cache) => dbStops'[Cache[k + 2].id].status = "in_progress"
    ]_vars

C7_Witness ==
  /\ outcome.op = "advanceToNextStop" /\ outcome.result = OK /\ outcome.stop = 2
  /\ Cardinality(Ids) = 3
  /\ dbStops[1].status = "done" /\ dbStops[1].updated_by = Me
  /\ dbStops[2].status = "done"
  /\ dbStops[3].status = "in_progress"
  /\ irregular = 0

C9_ResetEffect ==
  [][(ResetCall /\ outcome'.result = OK)
     => /\ \A i \in DOMAIN dbStops' :
             /\ dbStops'[i].status = "not_started"
             /\ dbStops'[i].started_at = NULL
             /\ dbStops'[i].completed_at = NULL
             /\ dbStops'[i].updated_by = Me
        /\ dbNotes \subseteq dbNotes'
    ]_vars

\* C10: monotonic completion: an advanceToNextStop call never decreases the
\* number of stops with status done.
C10_MonotonicCompletion ==
  [][AdvanceCall => completedCount(dbStops') >= completedCount(dbStops)]_vars

C10_Witness ==
  /\ outcome.op = "advanceToNextStop" /\ outcome.result = OK /\ outcome.stop # 0
  /\ completedCount(dbStops) = 3

\* a step that is a direct updateStopStatus call by the session
UpdateCall(id, status) ==
  outcome'.op = "updateStopStatus" /\ UpdateStopStatusCall(Me, id, status)

\* C11: started_at is written only the first time a stop becomes in_progress:
\* a successful status update to in_progress of a stop whose started_at is
\* already set leaves started_at unchanged.
C11_StartedAtOnce ==
  [][\A id \in Ids :
       ( /\ dbStops[id].started_at # NULL
         /\ UpdateCall(id, "in_progress")
         /\ outcome'.result = OK )
       => dbStops'[id].started_at = dbStops[id].started_at
    ]_vars

\* C12: completed_at bookkeeping of updateStopStatus: whatever the old status,
\* a successful call sets completed_at to the call time when the new status is
\* done, to null when it is in_progress, leaves it unchanged when it is blocked
\* or not_started, and sets updated_by to the caller.
C12_CompletedAtBookkeeping ==
  [][\A id \in Ids, st \in Statuses :
       (UpdateCall(id, st) /\ outcome'.result = OK)
       => /\ dbStops'[id].status = st
          /\ st = "done" => dbStops'[id].completed_at = now
          /\ st = "in_progress" => dbStops'[id].completed_at = NULL
          /\ st \in {"blocked", "not_started"}
               => dbStops'[id].completed_at = dbStops[id].completed_at
          /\ dbStops'[id].updated_by = Me
    ]_vars

\* a blocked stop that kept the completed_at of an earlier done
C12_Witness ==
  /\ outcome.op = "updateStopStatus" /\ outcome.result = OK
  /\ now = 2
  /\ \E i \in Ids : /\ dbStops[i].status = "blocked"
                     /\ dbStops[i].completed_at = 1
                     /\ dbStops[i].updated_by = Me

\* the call of session s was refused by the capability check of the hook, with
\* no storage call made
Refused(s) ==
  /\ outcome'.by = s
  /\ outcome'.result \in {E_PERM, E_ADMIN}
  /\ UNCHANGED <<dbStops, dbNotes, dbTrains>>

\* C13: capability check before every write: an operation that writes trains,
\* stops or notes, called by a session without the capability (canEdit for
\* updateStopStatus, advanceToNextStop, startTrain, resetTrain and addNote;
\* isAdmin for updateReleaseStops and createReleaseTrain), fails on the
\* capability check and sends no write to storage.
C13_CapabilityFirst ==
  [][\A s \in Sessions :
       /\ ~canEdit(s) =>
            /\ (outcome'.op = "startTrain" /\ outcome'.by = s /\ StartTrain(s))
                 => Refused(s)
            /\ (outcome'.op = "advanceToNextStop" /\ outcome'.by = s /\ AdvanceToNextStop(s))
                 => Refused(s)
            /\ (outcome'.op = "resetTrain" /\ outcome'.by = s /\ ResetTrain(s))
                 => Refused(s)
            /\ \A id \in StopIds, st \in Statuses :
                 (outcome'.op = "updateStopStatus" /\ outcome'.by = s
                    /\ UpdateStopStatusCall(s, id, st))
                 => Refused(s)
            /\ \A id \in StopIds : AddNote(s, id) => UNCHANGED <<dbStops, dbNotes, dbTrains>>
       /\ ~isAdmin(s) =>
            /\ (outcome'.op = "updateReleaseStops" /\ outcome'.by = s
                  /\ UpdateReleaseStops(s, <<EditorNumber(dbStops)>>, {}))
                 => Refused(s)
            /\ (outcome'.op = "createReleaseTrain" /\ outcome'.by = s
                  /\ CreateReleaseTrain(s))
                 => Refused(s)
    ]_vars

\* a step that is an updateReleaseStops call by the admin
RosterCall ==
  /\ outcome'.op = "updateReleaseStops"
  /\ \E toAdd \in ToAddLists, toDelete \in SUBSET DOMAIN dbStops :
       UpdateReleaseStops("u2", toAdd, toDelete)

\* C14: no swallowed storage errors: when a storage call issued by
\* updateReleaseStops (its renumbering pass included), startTrain,
\* advanceToNextStop or resetTrain fails, the operation fails to its caller.
C14_NoSwallowedErrors ==
  [][irregular' > irregular =>
       /\ RosterCall => outcome'.result # OK
       /\ StartCall => outcome'.result # OK
       /\ AdvanceCall => outcome'.result # OK
       /\ ResetCall => outcome'.result # OK
    ]_vars

C19_DerivedCompleteness ==
  /\ is_complete(dbStops) <=>
       (Ids # {} /\ \A i \in Ids : dbStops[i].status = "done")
  /\ isComplete(Cache) <=>
       (Len(Cache) > 0 /\ \A k \in 1..Len(Cache) : Cache[k].status = "done")

\* C20: timestamp order: with the non-decreasing clock, in every state reached
\* through startTrain, advanceToNextStop, updateStopStatus and resetTrain, a stop
\* whose started_at and completed_at are both set has started_at <= completed_at.
C20_TimestampOrder ==
  \A i \in Ids :
    (dbStops[i].started_at # NULL /\ dbStops[i].completed_at # NULL)
      => dbStops[i].started_at <= dbStops[i].completed_at

\* a stop started at time 1 and completed at time 2, a later stop re-opened
C20_Witness ==
  /\ \E i \in Ids : dbStops[i].started_at = 1 /\ dbStops[i].completed_at = 2
  /\ \E i \in Ids : /\ dbStops[i].status = "in_progress"
                     /\ dbStops[i].started_at = 2
                     /\ dbStops[i].completed_at = NULL
  /\ outcome.op = "updateStopStatus" /\ outcome.result = OK

\* how many times the release with the id occurs in a list
Occurrences(list, id) == Cardinality({k \in 1..Len(list) : list[k].id = id})

InTrack(list, t) == {k \in 1..Len(list) : list[k].track = t}

\* C16: track classification is a partition with bounded heads: every release
\* is placed in exactly one of current-active, recently-completed, archived;
\* a track has at most one current-active release, which is a release of the
\* track that is not complete and has the highest version among those (and there
\* is one whenever the track has a release that is not complete), and at most
\* one recently-completed release.
C16_TrackPartition ==
  shown.rendered =>
    /\ \A i \in 1..Len(releases) :
         Occurrences(shown.currentActive, releases[i].id)
           + Occurrences(shown.recentlyCompleted, releases[i].id)
           + Occurrences(shown.archived, releases[i].id) = 1
    /\ Len(shown.currentActive) + Len(shown.recentlyCompleted) + Len(shown.archived)
         = Len(releases)
    /\ \A t \in Tracks :
         LET open == {i \in InTrack(releases, t) : ~releases[i].is_complete}
             cur == InTrack(shown.currentActive, t)
         IN /\ Cardinality(cur) <= 1
            /\ open # {} => cur # {}
            /\ \A k \in cur :
                 /\ ~shown.currentActive[k].is_complete
                 /\ \E i \in open : releases[i] = shown.currentActive[k]
                 /\ \A i \in open :
                      compareVersions(shown.currentActive[k].version, releases[i].version) >= 0
            /\ Cardinality(InTrack(shown.recentlyCompleted, t)) <= 1

\* one track with a current, a recently completed and an archived open release
C16_Witness ==
  /\ shown.rendered
  /\ Len(releases) = 3
  /\ \A i \in 1..3 : releases[i].track = "ios"
  /\ Len(shown.currentActive) = 1
  /\ Len(shown.recentlyCompleted) = 1
  /\ Len(shown.archived) = 1
  /\ ~shown.archived[1].is_complete

\* C17: recently-completed selection: within a track, the complete release
\* classified as recently-completed is the one with the greatest updated_at, and
\* every other complete release of the track is archived.
C17_RecentlyCompleted ==
  shown.rendered =>
    \A i \in 1..Len(releases) :
      releases[i].is_complete =>
        LET newest == \A j \in 1..Len(releases) :
                        (releases[j].track = releases[i].track /\ releases[j].is_complete)
                          => releases[i].updated_at >= releases[j].updated_at
        IN IF newest
           THEN Occurrences(shown.recentlyCompleted, releases[i].id) = 1
           ELSE Occurrences(shown.archived, releases[i].id) = 1

\* compareVersions over all pairs of the version strings
VersionOrder == [a \in Versions, b \in Versions |-> compareVersions(a, b)]

\* C18: version comparator: compareVersions compares the numeric dot-separated
\* segments left to right with missing segments as 0 (1.10.0 > 1.2.0 and
\* 1.2 = 1.2.0), ignores characters that are neither digit nor dot, is
\* antisymmetric (compareVersions(a,b) = -compareVersions(b,a)) and transitive;
\* the release the Dashboard shows as current is a highest one under it.
C18_VersionOrder ==
  Len(releases) = 2 =>
    LET a == releases[1].version
        b == releases[2].version
        pa == Parts(a)
        pb == Parts(b)
        n == IF Len(pa) > Len(pb) THEN Len(pa) ELSE Len(pb)
    IN /\ VersionOrder[a, b] = 0 - VersionOrder[b, a]
       /\ VersionOrder[a, a] = 0
       /\ \A c \in Versions :
            /\ (VersionOrder[a, b] >= 0 /\ VersionOrder[b, c] >= 0) => VersionOrder[a, c] >= 0
            /\ (VersionOrder[a, b] = 1 /\ VersionOrder[b, c] >= 0) => VersionOrder[a, c] = 1
            /\ (VersionOrder[a, b] >= 0 /\ VersionOrder[b, c] = 1) => VersionOrder[a, c] = 1
       /\ VersionOrder[a, b] = 1 <=>
            \E i \in 1..n : /\ PartOrZero(pa, i) > PartOrZero(pb, i)
                            /\ \A j \in 1..(i - 1) : PartOrZero(pa, j) = PartOrZero(pb, j)
       /\ VersionOrder[a, b] = 0 <=>
            \A i \in 1..n : PartOrZero(pa, i) = PartOrZero(pb, i)
       /\ compareVersions(Strip(a), Strip(b)) = VersionOrder[a, b]
       /\ compareVersions(<<"1", ".", "1", "0", ".", "0">>, <<"1", ".", "2", ".", "0">>) = 1
       /\ compareVersions(<<"1", ".", "2">>, <<"1", ".", "2", ".", "0">>) = 0
       /\ compareVersions(<<"v", "1", ".", "2", ".", "0">>, <<"1", ".", "2", ".", "0">>) = 0
       /\ shown.rendered =>
            /\ Len(shown.currentActive) = 1
            /\ VersionOrder[shown.currentActive[1].version, a] >= 0
            /\ VersionOrder[shown.currentActive[1].version, b] >= 0

\* 1.2.0 and v1.10.0 compared: the Dashboard shows v1.10.0 as current
C18_Witness ==
  /\ shown.rendered
  /\ Len(releases) = 2
  /\ releases[1].version = <<"1", ".", "2", ".", "0">>
  /\ releases[2].version = <<"v", "1", ".", "1", "0", ".", "0">>
  /\ shown.currentActive[1].id = 2
  /\ shown.archived[1].id = 1

\* C21: single active stop across sessions: two sessions, each acting on its
\* own cached copy of the stops, interleave startTrain and advanceToNextStop
\* calls against shared storage; the stored train never has more than one stop
\* in_progress or blocked.
C21_SingleActiveAcrossSessions ==
  \A i, j \in Ids :
    ( /\ dbStops[i].status \in {"in_progress", "blocked"}
      /\ dbStops[j].status \in {"in_progress", "blocked"} ) => i = j

\* the last advanceToNextStop failed after its first write: it threw and the
\* session's list holds no in_progress stop
Interrupted ==
  /\ outcome.op = "advanceToNextStop"
  /\ outcome.result = E_STORAGE
  /\ \A k \in 1..Len(Cache) : Cache[k].status # "in_progress"

\* C22: interrupted advance is recoverable: when the first write of
\* advanceToNextStop succeeds and the second fails, the train has no in_progress
\* stop and is not complete; from that state advanceToNextStop is a no-op and
\* startTrain fails; one updateStopStatus(next stop, in_progress) gives a state
\* with that stop as the only in_progress stop, from which advanceToNextStop
\* advances again.
C22_InterruptedAdvance ==
  [][ /\ (AdvanceCall /\ outcome'.result = E_STORAGE /\ dbStops' # dbStops)
         => /\ \A i \in Ids : dbStops'[i].status # "in_progress"
            /\ \A k \in 1..Len(Cache) : stops'[Me][k].status # "in_progress"
            /\ ~is_complete(dbStops')
            /\ ~isComplete(stops'[Me])
      /\ (Interrupted /\ AdvanceCall)
         => outcome'.result = OK /\ dbStops' = dbStops /\ stops' = stops
      /\ (Interrupted /\ StartCall)
         => outcome'.result \in {E_STARTED, E_NOSTOPS} /\ dbStops' = dbStops
      /\ \A id \in Ids :
           (Interrupted /\ id \in NextToStart(Me) /\ UpdateCall(id, "in_progress")
              /\ outcome'.result = OK)
           => \A i \in Ids : dbStops'[i].status = "in_progress" <=> i = id
      /\ ( /\ outcome.op = "updateStopStatus" /\ outcome.result = OK
           /\ AdvanceCall /\ outcome'.result = OK )
         => /\ outcome'.stop # 0
            /\ dbStops'[outcome'.stop].status = "done"
            /\ dbStops[outcome'.stop].status = "in_progress"
    ]_vars

\* after an interrupted advance (stop 1 done, nothing in progress) startTrain
\* has failed
C22_Witness ==
  /\ outcome.op = "startTrain" /\ outcome.result = E_STARTED
  /\ irregular = 1
  /\ Cardinality(Ids) = 3
  /\ dbStops[1].status = "done"
  /\ dbStops[2].status = "not_started"
  /\ \A i \in Ids : dbStops[i].status # "in_progress"

\* C23: done is terminal and not directly reachable from blocked: under
\* startTrain, advanceToNextStop and updateStopStatus no step changes the status
\* of a stop that is done, and no step takes a stop from blocked to done.
C23_DoneIsTerminal ==
  [][\A i \in Ids :
       /\ dbStops[i].status = "done" => dbStops'[i].status = "done"
       /\ dbStops[i].status = "blocked" => dbStops'[i].status # "done"
    ]_vars

\* the stored stops in number order
StoredInOrder == CHOOSE sq \in OrderByNumber(Rows(dbStops)) : TRUE

Linear(sq) ==
  \A k \in 1..Len(sq) :
    /\ sq[k].status = "done" => \A j \in 1..(k - 1) : sq[j].status = "done"
    /\ sq[k].status \in {"in_progress", "blocked"}
         => /\ \A j \in 1..(k - 1) : sq[j].status = "done"
            /\ \A j \in (k + 1)..Len(sq) : sq[j].status = "not_started"

\* C24: the actions offered by the stop controls, Start Train and Reset keep
\* the train linear: in number order the stops are a run of done stops, then at
\* most one in_progress or blocked stop, then only not_started stops.
C24_UiKeepsLinear == Linear(StoredInOrder)

\* the stops present before and after a step
Surviving == DOMAIN dbStops \cap DOMAIN dbStops'

\* C25: renumbering frame: a call of updateReleaseStops that returns changes no
\* field other than number of a surviving stop, keeps the surviving stops in
\* their relative order by number, and leaves the number of a stop alone unless
\* it differs from the stop's position.
C25_RenumberingFrame ==
  [][(RosterCall /\ outcome'.result = OK)
       => /\ \A i \in Surviving :
               [dbStops'[i] EXCEPT !.number = dbStops[i].number] = dbStops[i]
          /\ \A i, j \in Surviving :
               dbStops[i].number < dbStops[j].number
                 => dbStops'[i].number < dbStops'[j].number
    ]_vars

\* the stops a step created
Created == DOMAIN dbStops' \ DOMAIN dbStops

\* C26: added stops are appended: after a call of updateReleaseStops that
\* returns, every stop created from toAdd is not_started and has a number
\* greater than the number of every surviving stop.
C26_AddedStopsAppended ==
  [][(RosterCall /\ outcome'.result = OK)
       => \A n \in Created :
            /\ dbStops'[n].status = "not_started"
            /\ \A i \in Surviving : dbStops'[n].number > dbStops'[i].number
    ]_vars

\* stops 1..k are done, stop k+1 (if any) is in_progress, the rest not_started
Progress(db, k) ==
  \A i \in DOMAIN db :
    db[i].status = IF db[i].number <= k THEN "done"
                   ELSE IF db[i].number = k + 1 THEN "in_progress"
                   ELSE "not_started"

\* C27: linear progress terminates: with no failure, on a train of N >= 1
\* stops that are all not_started, startTrain puts stop 1 in progress, the k-th
\* advanceToNextStop closes stop k and opens stop k+1 (exactly one stop in
\* progress until the N-th advance completes the train), and an advance on the
\* complete train changes nothing.
C27_LinearProgress ==
  [][irregular' = 0 =>
       /\ (StartCall /\ Ids # {} /\ \A i \in Ids : dbStops[i].status = "not_started")
            => outcome'.result = OK /\ Progress(dbStops', 0)
       /\ \A k \in 0..(Cardinality(Ids) - 1) :
            (Progress(dbStops, k) /\ AdvanceCall)
              => /\ outcome'.result = OK
                 /\ Progress(dbStops', k + 1)
                 /\ is_complete(dbStops') <=> k + 1 = Cardinality(Ids)
       /\ (Ids # {} /\ Progress(dbStops, Cardinality(Ids)) /\ AdvanceCall)
            => outcome'.result = OK /\ dbStops' = dbStops /\ stops' = stops
    ]_vars

\* a train of three stops is complete and a further advance has returned
\* without closing a stop
C27_Witness ==
  /\ irregular = 0
  /\ Cardinality(Ids) = 3
  /\ Progress(dbStops, 3)
  /\ is_complete(dbStops)
  /\ outcome.op = "advanceToNextStop" /\ outcome.result = OK /\ outcome.stop = 0

\* both sessions' calls observed the same in_progress stop and have returned
SameObservation ==
  /\ inflight["u1"].stage = "returned"
  /\ inflight["u2"].stage = "returned"
  /\ inflight["u1"].cur # 0
  /\ inflight["u1"].cur = inflight["u2"].cur

\* C28: same-observation race is benign: when two sessions observed the same
\* in_progress stop k and each calls advanceToNextStop once, then however
\* their writes interleave each write changes only the stop it addresses (k
\* or k+1), and when both calls have returned stop k is done and stop k+1, if
\* any, is in_progress.
C28_SameObservationRace ==
  [][/\ \A s \in Editors :
          /\ AdvanceFirstWrite(s) =>
               \A i \in Ids \ {inflight[s].cur} : dbStops'[i] = dbStops[i]
          /\ AdvanceSecondWrite(s) =>
               \A i \in Ids \ {inflight[s].nxt} : dbStops'[i] = dbStops[i]
     /\ SameObservation' =>
          /\ inflight'["u1"].nxt = inflight'["u2"].nxt
          /\ dbStops'[inflight'["u1"].cur].status = "done"
          /\ inflight'["u1"].nxt # 0 =>
               /\ dbStops'[inflight'["u1"].nxt].status = "in_progress"
               /\ dbStops'[inflight'["u1"].nxt].number
                    = dbStops'[inflight'["u1"].cur].number + 1
    ]_vars

\* both calls observed stop 1 and have returned; the last write to stop 1 came
\* from u2 and the last write to stop 2 from u1, so the writes interleaved
C28_Witness ==
  /\ SameObservation
  /\ inflight["u1"].cur = 1 /\ inflight["u1"].nxt = 2
  /\ dbStops[1].updated_by = "u2"
  /\ dbStops[2].updated_by = "u1"
  /\ irregular = 0

\* C29: status/timestamp consistency: in every state reached from train
\* creation through startTrain, advanceToNextStop, updateStopStatus with any
\* target status and resetTrain, a done stop has a completed_at, and an
\* in_progress stop has a started_at and no completed_at.
C29_StatusTimestamps ==
  \A i \in Ids :
    /\ dbStops[i].status = "done" => dbStops[i].completed_at # NULL
    /\ dbStops[i].status = "in_progress"
         => dbStops[i].started_at # NULL /\ dbStops[i].completed_at = NULL

\* the first stop was marked done without ever having been started and has
\* been put back in progress at time 2, next to a stop that is in progress too
C29_Witness ==
  /\ Cardinality(Ids) >= 2
  /\ outcome.op = "updateStopStatus"
  /\ dbStops[1].status = "in_progress" /\ dbStops[1].started_at = 2
  /\ dbStops[2].status = "in_progress" /\ dbStops[2].started_at = 1

Invalid == loginToken.used_at # NULL \/ loginToken.expires_at < now

\* C30: login token is single-use: at most one validate request for the token
\* is answered with success, also when two requests for the unused, unexpired
\* token are processed at the same time; a request that finds the token used
\* or expired is answered INVALID_TOKEN.
C30_TokenSingleUse ==
  [][/\ \A r \in Requests :
          (Invalid /\ \E tok \in Presented : ValidateLookup(r, tok))
            => validate'[r].response = INVALID_TOKEN
     /\ Cardinality({r \in Requests : validate'[r].response = SUCCESS}) <= 1
    ]_vars

TypeOK ==
  /\ DOMAIN dbStops \subseteq StopIds
  /\ \A i \in DOMAIN dbStops :
       /\ dbStops[i].id = i
       /\ dbStops[i].status \in Statuses
       /\ dbStops[i].started_at \in 0..MaxTime
       /\ dbStops[i].completed_at \in 0..MaxTime
  /\ now \in 1..MaxTime
  /\ irregular \in 0..MaxIrregular
  /\ issued \in 0..(MaxStops + MaxAdd)
  /\ dbTrains \in 1..MaxTrains
====
